---------------------------- MODULE Spec2Model ----------------------------
(***************************************************************************)
(* PiSignage Pro (src/main.py): the playback loop of ContentScheduler,     *)
(* the renderer switch of VLCPlayerManager and the websocket fan-out of    *)
(* notify_clients, as one state machine.                                   *)
(*                                                                         *)
(* The program runs on one asyncio event loop: code between two awaits is  *)
(* atomic, and every await is a point where another coroutine may run.     *)
(* Each action below is one such atomic block.                             *)
(***************************************************************************)
EXTENDS Integers, Sequences, FiniteSets, TLC

(***************************************************************************)
(* Bounds of the model.                                                    *)
(***************************************************************************)
\* longest id list passed to update_playlist
MaxLen == 2
\* selections counted since the last update_playlist (the count saturates)
MaxTicks == 4

(***************************************************************************)
(* Program constants.                                                      *)
(***************************************************************************)
\* asyncio.sleep(5) when there is no content
BackoffSecs == 5
\* steps = 20 in _fade_out and _fade_in
Steps == 20
\* target_volume = 100 in _fade_in
TargetVolume == 100

(***************************************************************************)
(* Content objects.  A Content is identified by its id; the playlist holds *)
(* the objects themselves, not ids.  Two of the objects share the id "A":  *)
(* add_content of the second replaces the first in content_db.             *)
(***************************************************************************)
ContentIds == {"A", "B"}

Contents ==
    { [id |-> "A", type |-> "video", duration |-> 2],
      [id |-> "A", type |-> "image", duration |-> 1],
      [id |-> "B", type |-> "web",   duration |-> 1] }

\* the value of a variable that holds no Content (None)
NoContent == [id |-> "none", type |-> "none", duration |-> 0]

VARIABLES
    \* ContentScheduler
    content_db,         \* dict id -> Content, as the sequence of its values in insertion order
    current_playlist,   \* list of Content objects
    current_index,
    schedules,          \* dict id -> Schedule, as a set of Schedule records
    \* the live play_next invocation
    pc,                 \* "select", "backoff", "fade_out", "fade_in", "sleep", "dead"
    content,            \* local variable content of play_next
    started,            \* startup_event has returned: requests are served
    tasks,              \* play_next tasks made by create_task and not yet begun
    timer,              \* seconds left of the asyncio.sleep the invocation is suspended in
    fade_i,             \* loop variable i of _fade_out / _fade_in
    current_volume,     \* local variable current_volume of _fade_out
    \* VLCPlayerManager and the processes it drives
    is_transitioning,
    current_media,
    vlc_playing,        \* player.is_playing()
    volume,             \* the player's audio volume
    browser,            \* a chromium process is running
    \* websocket layer
    websocket_clients,  \* list of connected websockets
    sock,               \* per websocket: "none", "open", "closing", "gone"
    notify,             \* per handler slot: the notify_clients call in flight
    raised,             \* set of places an exception escaped from
    \* the API layer
    last,               \* the API call handled in the step just taken, NoCall if none
    shut,               \* shutdown_event has run
    \* a play_content call made by a second caller while the loop's is running
    sw_pc,              \* "idle", "fade_out", "fade_in" or "done"
    sw_content,         \* its content argument
    sw_i,               \* its fade loop variable
    sw_volume,          \* its current_volume local in _fade_out
    sw_tick,            \* history: the tick of the loop it was made in
    \* history variables
    ticks,              \* selections since the last update_playlist, up to MaxTicks
    clean,              \* the last update_playlist did not land inside a play_content call
    removed_cur,        \* the content being shown was deleted during its duration wait
    load_failed         \* the last play_content call hit an exception

sched_vars == <<content_db, current_playlist, current_index, schedules>>
driver_vars == <<pc, started, tasks, content, timer, fade_i, current_volume>>
player_vars == <<is_transitioning, current_media, vlc_playing, volume, browser>>
ws_vars == <<websocket_clients, sock, notify, raised>>
hist_vars == <<ticks, clean, removed_cur, load_failed>>
api_vars == <<last, shut>>
switch_vars == <<sw_pc, sw_content, sw_i, sw_volume, sw_tick>>
vars == <<sched_vars, driver_vars, player_vars, ws_vars, hist_vars, api_vars,
          switch_vars>>

\* no API call: what `last` holds after a step of the loop or of a websocket.
\* status is the HTTP status of the response, event the type of the message
\* the handler passed to notify_clients.
NoCall == [op |-> "none", id |-> "none", ids |-> <<>>, status |-> 0, event |-> "none"]

\* a step that is no API call, no shutdown and no step of a second caller
NoApi == last' = NoCall /\ UNCHANGED <<shut, switch_vars>>

(***************************************************************************)
(* The content_db dict.                                                    *)
(***************************************************************************)
Keys(db) == {db[i].id : i \in DOMAIN db}

DictSetAppend(db, c) == Append(db, c)

\* self.content_db[content.id] = content: an existing key keeps its place
DictSet(db, c) ==
    IF c.id \in Keys(db)
    THEN [i \in DOMAIN db |-> IF db[i].id = c.id THEN c ELSE db[i]]
    ELSE Append(db, c)

DictDelAll(db, cid) == <<>>

\* del self.content_db[content_id]
DictDel(db, cid) == SelectSeq(db, LAMBDA c : c.id # cid)

\* self.content_db[cid]
DictGet(db, cid) == (CHOOSE i \in DOMAIN db : db[i].id = cid)

ResolveUntilUnknown(db, ids) ==
    IF ids = <<>> \/ Head(ids) \notin Keys(db) THEN <<>>
    ELSE <<db[DictGet(db, Head(ids))]>>

RECURSIVE Resolve(_, _)
\* [self.content_db[cid] for cid in content_ids if cid in self.content_db]
Resolve(db, ids) ==
    IF ids = <<>> THEN <<>>
    ELSE IF Head(ids) \in Keys(db)
         THEN <<db[DictGet(db, Head(ids))]>> \o Resolve(db, Tail(ids))
         ELSE Resolve(db, Tail(ids))

\* the id lists a caller may pass to update_playlist
IdLists == UNION {[1..n -> ContentIds] : n \in 0..MaxLen}

(***************************************************************************)
(* The websocket layer: websocket_clients and notify_clients.              *)
(***************************************************************************)
\* the websocket connections that may be made
Sockets == {"w1", "w2"}

\* the request handlers that may be inside notify_clients at one time
Slots == {1, 2}

\* no notify_clients call in the slot.  older is the set of slots whose call
\* was published before this one and was still sending when this one began.
IdleCall == [st |-> "idle", i |-> 0, disconnected |-> <<>>, at_start |-> {}, got |-> {},
             older |-> {}]

InList(l, x) == \E j \in DOMAIN l : l[j] = x

\* list.remove(x): the first occurrence goes
ListRemove(l, x) ==
    LET k == CHOOSE j \in DOMAIN l : l[j] = x /\ \A h \in 1..(j - 1) : l[h] # x
    IN  SubSeq(l, 1, k - 1) \o SubSeq(l, k + 1, Len(l))

RECURSIVE Prune(_, _)
\* for client in disconnected: websocket_clients.remove(client)
\* list.remove raises ValueError for a client that is not in the list
Prune(l, disc) ==
    IF disc = <<>> THEN [list |-> l, ok |-> TRUE]
    ELSE IF InList(l, Head(disc))
         THEN Prune(ListRemove(l, Head(disc)), Tail(disc))
         ELSE [list |-> l, ok |-> FALSE]

\* notify_clients from the head of its for loop to the next await (st is
\* "sending") or to its end (st is "done").  The list iterator reads item i
\* of the list as the list is now; send_json raises unless the socket is open.
NotifyRun(call, l, sk) ==
    IF call.i < Len(l)
    THEN LET w == l[call.i + 1]
         IN [call |-> [call EXCEPT
                          !.st = "sending",
                          !.i = @ + 1,
                          !.got = IF sk[w] = "open" THEN @ \cup {w} ELSE @,
                          !.disconnected = IF sk[w] = "open" THEN @ ELSE Append(@, w)],
             list |-> l,
             ok |-> TRUE]
    ELSE LET r == Prune(l, call.disconnected)
         IN [call |-> [call EXCEPT !.st = "done"], list |-> r.list, ok |-> r.ok]

\* a handler calls notify_clients(message) and runs it to its first await.
\* With no client connected the call returns at once and leaves no trace.
StartNotify ==
    IF websocket_clients = <<>>
    THEN UNCHANGED ws_vars
    ELSE /\ \E p \in Slots : notify[p].st # "sending"
         /\ LET p == CHOOSE q \in Slots :
                        /\ notify[q].st # "sending"
                        /\ \A h \in Slots : notify[h].st # "sending" => q <= h
                open == {w \in Sockets : InList(websocket_clients, w) /\ sock[w] = "open"}
                inflight == {q \in Slots : notify[q].st = "sending"}
                r == NotifyRun([IdleCall EXCEPT !.at_start = open, !.older = inflight],
                               websocket_clients, sock)
            IN /\ notify' = [q \in Slots |->
                                IF q = p THEN r.call
                                ELSE [notify[q] EXCEPT !.older = @ \ {p}]]
               /\ websocket_clients' = r.list
               /\ raised' = IF r.ok THEN raised ELSE raised \cup {"notify_clients"}
               /\ UNCHANGED sock

\* notify_clients resumes from await client.send_json(message)
NotifyStep(p) ==
    /\ notify[p].st = "sending"
    /\ LET r == NotifyRun(notify[p], websocket_clients, sock)
       IN /\ notify' = [notify EXCEPT ![p] = r.call]
          /\ websocket_clients' = r.list
          /\ raised' = IF r.ok THEN raised ELSE raised \cup {"notify_clients"}
    /\ NoApi
    /\ UNCHANGED <<sock, sched_vars, driver_vars, player_vars, hist_vars>>

\* websocket_endpoint up to its first receive_text
Connect(w) ==
    /\ started
    /\ sock[w] = "none"
    /\ sock' = [sock EXCEPT ![w] = "open"]
    /\ websocket_clients' = Append(websocket_clients, w)
    /\ NoApi
    /\ UNCHANGED <<notify, raised, sched_vars, driver_vars, player_vars, hist_vars>>

\* the peer closes the connection: sends to it fail from now on
PeerClose(w) ==
    /\ sock[w] = "open"
    /\ sock' = [sock EXCEPT ![w] = "closing"]
    /\ NoApi
    /\ UNCHANGED <<websocket_clients, notify, raised, sched_vars, driver_vars,
                   player_vars, hist_vars>>

\* receive_text raises WebSocketDisconnect: websocket_clients.remove(websocket)
EndpointDisconnect(w) ==
    /\ sock[w] = "closing"
    /\ sock' = [sock EXCEPT ![w] = "gone"]
    /\ IF InList(websocket_clients, w)
       THEN /\ websocket_clients' = ListRemove(websocket_clients, w)
            /\ UNCHANGED raised
       ELSE /\ raised' = raised \cup {"websocket_endpoint"}
            /\ UNCHANGED websocket_clients
    /\ NoApi
    /\ UNCHANGED <<notify, sched_vars, driver_vars, player_vars, hist_vars>>

(***************************************************************************)
(* Initial state: the module-level objects of src/main.py as constructed,  *)
(* with startup_event about to run scheduler.start() -> play_next().       *)
(***************************************************************************)
Init ==
    /\ content_db = <<>>
    /\ current_playlist = <<>>
    /\ current_index = 0
    /\ schedules = {}
    /\ pc = "select"
    /\ started = FALSE
    /\ tasks = 0
    /\ content = NoContent
    /\ timer = 0
    /\ fade_i = 0
    /\ current_volume = 0
    /\ is_transitioning = FALSE
    /\ current_media = NoContent
    /\ vlc_playing = FALSE
    /\ volume = TargetVolume
    /\ browser = FALSE
    /\ websocket_clients = <<>>
    /\ sock = [w \in Sockets |-> "none"]
    /\ notify = [p \in Slots |-> IdleCall]
    /\ raised = {}
    /\ last = NoCall
    /\ shut = FALSE
    /\ sw_pc = "idle"
    /\ sw_content = NoContent
    /\ sw_i = 0
    /\ sw_volume = 0
    /\ sw_tick = 0
    /\ ticks = 0
    /\ clean = TRUE
    /\ removed_cur = FALSE
    /\ load_failed = FALSE

(***************************************************************************)
(* play_next and the play_content call inside it.                          *)
(***************************************************************************)
\* int(level * i / steps) of _fade_out and _fade_in
FadeLevel(level, i) == (level * i) \div Steps

\* a cursor advance that steps over an item
NextIndexSkip(idx, n) == (idx + 2) % n

NextIndexNoWrap(idx, n) == idx + 1

\* the cursor advance of play_next
NextIndex(idx, n) == (idx + 1) % n

\* play_next after play_content has returned: advance the cursor, then
\* asyncio.sleep(content.duration).  The modulus raises ZeroDivisionError
\* when the playlist has become empty, and nothing restarts the task.
AfterPlay(c, pl) ==
    IF Len(pl) = 0
    THEN /\ pc' = "dead"
         /\ UNCHANGED <<current_index, timer>>
    ELSE /\ current_index' = NextIndex(current_index, Len(pl))
         /\ timer' = c.duration
         /\ pc' = "sleep"

\* play_content from "Load new media" on, entered with no await in between.
\* ok = FALSE: the renderer raises while loading (media_new for a media
\* file, Popen for the browser, after pkill has run).
Load(c, pl, ok) ==
    IF ~ok
    THEN /\ is_transitioning' = FALSE
         /\ browser' = IF c.type = "web" THEN FALSE ELSE browser
         /\ load_failed' = TRUE
         /\ fade_i' = 0
         /\ UNCHANGED <<current_media, vlc_playing, volume>>
         /\ AfterPlay(c, pl)
    ELSE IF c.type = "web"
    THEN \* _show_web_content, then "return" with is_transitioning still set
         /\ is_transitioning' = TRUE
         /\ browser' = TRUE
         /\ load_failed' = FALSE
         /\ fade_i' = 0
         /\ UNCHANGED <<current_media, vlc_playing, volume>>
         /\ AfterPlay(c, pl)
    ELSE \* set_media, play, and the first iteration of _fade_in
         /\ is_transitioning' = TRUE
         /\ current_media' = c
         /\ vlc_playing' = TRUE
         /\ fade_i' = 1
         /\ volume' = FadeLevel(TargetVolume, 1)
         /\ pc' = "fade_in"
         /\ load_failed' = FALSE
         /\ UNCHANGED <<browser, current_index, timer>>

\* a no-content branch that spawns the next task without sleeping
NoContentNoWait ==
    /\ pc' = "backoff"
    /\ timer' = 0
    /\ UNCHANGED <<content, current_index, fade_i, current_volume, player_vars,
                   ticks, load_failed>>

\* play_next with nothing to play: asyncio.sleep(5), then a new task
NoContentBranch ==
    /\ pc' = "backoff"
    /\ timer' = BackoffSecs
    /\ UNCHANGED <<content, current_index, fade_i, current_volume, player_vars,
                   ticks, load_failed>>

\* play_next from its first line to its first await: the call made by
\* scheduler.start(), or a task made by create_task that now begins
PlayNext ==
    /\ pc = "select"
    /\ ~started \/ tasks > 0
    /\ tasks' = IF started THEN tasks - 1 ELSE tasks
    /\ LET pl == IF current_playlist = <<>> THEN content_db ELSE current_playlist
       IN /\ current_playlist' = pl
          /\ IF pl = <<>>
             THEN NoContentBranch
             ELSE LET c == pl[current_index + 1]
                  IN /\ content' = c
                     /\ ticks' = IF ticks < MaxTicks THEN ticks + 1 ELSE ticks
                     /\ IF vlc_playing
                        THEN \* first iteration of _fade_out
                             /\ is_transitioning' = TRUE
                             /\ current_volume' = volume
                             /\ fade_i' = Steps
                             /\ volume' = FadeLevel(volume, Steps)
                             /\ pc' = "fade_out"
                             /\ load_failed' = FALSE
                             /\ UNCHANGED <<current_index, timer, current_media,
                                            vlc_playing, browser>>
                        ELSE /\ \E ok \in BOOLEAN : Load(c, pl, ok)
                             /\ UNCHANGED current_volume
    /\ NoApi
    /\ UNCHANGED <<content_db, schedules, started, ws_vars, clean, removed_cur>>

\* _fade_out resumes from asyncio.sleep: next iteration, or on to the load
FadeOutStep ==
    /\ pc = "fade_out"
    /\ IF fade_i - 1 > 0
       THEN /\ fade_i' = fade_i - 1
            /\ volume' = FadeLevel(current_volume, fade_i - 1)
            /\ UNCHANGED <<pc, timer, current_index, current_volume, is_transitioning,
                           current_media, vlc_playing, browser, load_failed>>
       ELSE /\ current_volume' = 0
            /\ \E ok \in BOOLEAN : Load(content, current_playlist, ok)
    /\ NoApi
    /\ UNCHANGED <<content_db, current_playlist, schedules, started, tasks, content,
                   ws_vars, ticks, clean, removed_cur>>

\* _fade_in resumes from asyncio.sleep: next iteration, or back to play_next
FadeInStep ==
    /\ pc = "fade_in"
    /\ IF fade_i + 1 <= Steps
       THEN /\ fade_i' = fade_i + 1
            /\ volume' = FadeLevel(TargetVolume, fade_i + 1)
            /\ UNCHANGED <<pc, timer, current_index, is_transitioning>>
       ELSE /\ is_transitioning' = FALSE
            /\ fade_i' = 0
            /\ AfterPlay(content, current_playlist)
            /\ UNCHANGED volume
    /\ NoApi
    /\ UNCHANGED <<content_db, current_playlist, schedules, started, tasks, content,
                   current_volume, current_media, vlc_playing, browser, ws_vars,
                   hist_vars>>

\* one second passes while play_next is suspended in asyncio.sleep
Tick ==
    /\ pc \in {"sleep", "backoff"}
    /\ timer > 0
    /\ timer' = timer - 1
    /\ NoApi
    /\ UNCHANGED <<sched_vars, pc, started, tasks, content, fade_i, current_volume,
                   player_vars, ws_vars, hist_vars>>

SpawnTwice(n) == n + 2

\* asyncio.create_task(self.play_next()): one more task waits to begin
Spawn(n) == n + 1

\* the sleep is over: asyncio.create_task(self.play_next()) and return; the
\* first return is the return of scheduler.start() to startup_event
Wake ==
    /\ pc \in {"sleep", "backoff"}
    /\ timer = 0
    /\ pc' = "select"
    /\ tasks' = Spawn(tasks)
    /\ started' = TRUE
    /\ content' = NoContent
    /\ removed_cur' = FALSE
    /\ load_failed' = FALSE
    /\ NoApi
    /\ UNCHANGED <<sched_vars, timer, fade_i, current_volume, player_vars, ws_vars,
                   ticks, clean>>

\* VLC reaches the end of a still image on its own (a video loops)
MediaEnds ==
    /\ vlc_playing
    /\ current_media.type = "image"
    /\ pc = "sleep"
    /\ vlc_playing' = FALSE
    /\ NoApi
    /\ UNCHANGED <<sched_vars, driver_vars, is_transitioning, current_media, volume,
                   browser, ws_vars, hist_vars>>

\* the play_next invocations that are live: the one that is running or
\* suspended in an await, and the tasks waiting to begin
Live ==
    tasks + (IF \/ pc \in {"fade_out", "fade_in", "sleep", "backoff"}
                \/ (pc = "select" /\ ~started)
             THEN 1 ELSE 0)

(***************************************************************************)
(* The API handlers: a catalog mutation, then notify_clients.              *)
(***************************************************************************)
\* scheduler.add_content(content) and the notify_clients call that follows it
\* in upload_content
AddContent(c) ==
    /\ started
    /\ content_db' = DictSet(content_db, c)
    /\ StartNotify
    /\ UNCHANGED <<shut, switch_vars>>
    /\ UNCHANGED <<current_playlist, current_index, schedules, driver_vars,
                   player_vars, hist_vars>>

\* delete_content: 404 for an unknown id, else remove_content and notify
DeleteContent(cid) ==
    /\ started
    /\ IF cid \notin Keys(content_db)
       THEN UNCHANGED <<sched_vars, driver_vars, player_vars, ws_vars, hist_vars,
                        shut, switch_vars>>
       ELSE /\ content_db' = DictDel(content_db, cid)
            /\ UNCHANGED <<shut, switch_vars>>
            /\ removed_cur' = (removed_cur \/
                                 (pc = "sleep" /\ timer > 0 /\ content.id = cid))
            /\ StartNotify
            /\ UNCHANGED <<current_playlist, current_index, schedules, driver_vars,
                           player_vars, ticks, clean, load_failed>>

\* the /api/playlist handler: scheduler.update_playlist(content_ids), notify
UpdatePlaylist(ids) ==
    /\ started
    /\ current_playlist' = Resolve(content_db, ids)
    /\ current_index' = 0
    /\ ticks' = 0
    /\ clean' = (pc \notin {"fade_out", "fade_in"})
    /\ StartNotify
    /\ UNCHANGED <<shut, switch_vars>>
    /\ UNCHANGED <<content_db, schedules, driver_vars, player_vars, removed_cur,
                   load_failed>>

(***************************************************************************)
(* What a handler answers and what it passes to notify_clients.  The       *)
(* handlers above leave `last` open: a specification either records the    *)
(* answer in it or leaves the call unobserved.                             *)
(***************************************************************************)
\* upload_content returns the Content after publishing content_added
AddResponse == [NoCall EXCEPT !.op = "add", !.status = 200, !.event = "content_added"]

\* delete_content raises HTTPException(404) before touching anything, or
\* publishes content_deleted and returns the success message
DeleteResponse(cid) ==
    IF cid \notin Keys(content_db)
    THEN [NoCall EXCEPT !.op = "delete", !.id = cid, !.status = 404]
    ELSE [NoCall EXCEPT !.op = "delete", !.id = cid, !.status = 200,
                        !.event = "content_deleted"]

\* update_playlist publishes playlist_updated and returns the success message
PlaylistResponse(ids) ==
    [NoCall EXCEPT !.op = "playlist", !.ids = ids, !.status = 200,
                   !.event = "playlist_updated"]

Unobserved == last' = NoCall

(***************************************************************************)
(* Schedules.  ContentScheduler keeps self.schedules, and the Schedule     *)
(* model has content_ids, enabled and priority; nothing in src/main.py     *)
(* stores a Schedule or reads one.  UpsertSchedule is the operation the    *)
(* specification names for storing one; a Schedule without start_time and  *)
(* end_time is active whenever it is enabled.                              *)
(***************************************************************************)
Schedules ==
    { [id |-> "S", content_ids |-> <<"B">>, enabled |-> TRUE, priority |-> 10],
      [id |-> "T", content_ids |-> <<"A">>, enabled |-> TRUE, priority |-> 0] }

UpsertSchedule(s) ==
    /\ started
    /\ schedules' = {t \in schedules : t.id # s.id} \cup {s}
    /\ NoApi
    /\ UNCHANGED <<content_db, current_playlist, current_index, driver_vars,
                   player_vars, ws_vars, hist_vars>>

\* the enabled Schedules, and those of the highest priority among them
ActiveSchedules == {s \in schedules : s.enabled}

TopSchedules == {s \in ActiveSchedules : \A t \in ActiveSchedules : t.priority <= s.priority}

(***************************************************************************)
(* A second caller of play_content.  VLCPlayerManager.play_content is a    *)
(* public coroutine with no lock and no test of is_transitioning; play_next *)
(* is its only caller in src/main.py.  Switch is the switch request of the *)
(* specification made while the loop's own call is in a fade; the call it  *)
(* starts runs the code of play_content with locals of its own.            *)
(***************************************************************************)
\* play_content from "Load new media" on, for the second caller
SwLoad(c, ok) ==
    IF ~ok
    THEN /\ is_transitioning' = FALSE
         /\ browser' = IF c.type = "web" THEN FALSE ELSE browser
         /\ sw_pc' = "failed"
         /\ sw_i' = 0
         /\ UNCHANGED <<current_media, vlc_playing, volume>>
    ELSE IF c.type = "web"
    THEN /\ is_transitioning' = TRUE
         /\ browser' = TRUE
         /\ sw_pc' = "done"
         /\ sw_i' = 0
         /\ UNCHANGED <<current_media, vlc_playing, volume>>
    ELSE /\ is_transitioning' = TRUE
         /\ current_media' = c
         /\ vlc_playing' = TRUE
         /\ sw_i' = 1
         /\ volume' = FadeLevel(TargetVolume, 1)
         /\ sw_pc' = "fade_in"
         /\ UNCHANGED browser

\* play_content(c) is called while the loop's call is suspended in a fade
Switch(c) ==
    /\ started
    /\ sw_pc = "idle"
    /\ pc \in {"fade_out", "fade_in"}
    /\ ticks < MaxTicks
    /\ c # content
    /\ sw_content' = c
    /\ sw_tick' = ticks
    /\ IF vlc_playing
       THEN /\ is_transitioning' = TRUE
            /\ sw_volume' = volume
            /\ sw_i' = Steps
            /\ volume' = FadeLevel(volume, Steps)
            /\ sw_pc' = "fade_out"
            /\ UNCHANGED <<current_media, vlc_playing, browser>>
       ELSE /\ \E ok \in BOOLEAN : SwLoad(c, ok)
            /\ UNCHANGED sw_volume
    /\ last' = NoCall
    /\ UNCHANGED <<sched_vars, driver_vars, ws_vars, hist_vars, shut>>

\* the second call's _fade_out resumes from asyncio.sleep
SwFadeOutStep ==
    /\ sw_pc = "fade_out"
    /\ IF sw_i - 1 > 0
       THEN /\ sw_i' = sw_i - 1
            /\ volume' = FadeLevel(sw_volume, sw_i - 1)
            /\ UNCHANGED <<sw_pc, sw_volume, is_transitioning, current_media,
                           vlc_playing, browser>>
       ELSE /\ sw_volume' = 0
            /\ \E ok \in BOOLEAN : SwLoad(sw_content, ok)
    /\ last' = NoCall
    /\ UNCHANGED <<sched_vars, driver_vars, ws_vars, hist_vars, shut, sw_content,
                   sw_tick>>

\* the second call's _fade_in resumes from asyncio.sleep
SwFadeInStep ==
    /\ sw_pc = "fade_in"
    /\ IF sw_i + 1 <= Steps
       THEN /\ sw_i' = sw_i + 1
            /\ volume' = FadeLevel(TargetVolume, sw_i + 1)
            /\ UNCHANGED <<sw_pc, is_transitioning>>
       ELSE /\ is_transitioning' = FALSE
            /\ sw_i' = 0
            /\ sw_pc' = "done"
            /\ UNCHANGED volume
    /\ last' = NoCall
    /\ UNCHANGED <<sched_vars, driver_vars, current_media, vlc_playing, browser,
                   ws_vars, hist_vars, shut, sw_content, sw_volume, sw_tick>>

(***************************************************************************)
(* Shutdown.  shutdown_event stops the player and the APScheduler; it      *)
(* holds no reference to the play_next task and cancels nothing.  The      *)
(* task goes on until uvicorn.run returns and the event loop is closed,    *)
(* which is some loop iterations later.                                    *)
(***************************************************************************)
\* shutdown_event: player_manager.stop() and scheduler.scheduler.shutdown()
Shutdown ==
    /\ started
    /\ ~shut
    /\ shut' = TRUE
    /\ vlc_playing' = FALSE
    /\ browser' = FALSE
    /\ last' = NoCall
    /\ UNCHANGED <<sched_vars, driver_vars, is_transitioning, current_media, volume,
                   ws_vars, hist_vars, switch_vars>>

\* uvicorn.run returns: the loop is closed and the pending play_next task
\* is cancelled with it
LoopClose ==
    /\ shut
    /\ pc \notin {"dead", "cancelled"}
    /\ pc' = "cancelled"
    /\ tasks' = 0
    /\ NoApi
    /\ UNCHANGED <<sched_vars, started, content, timer, fade_i, current_volume,
                   player_vars, ws_vars, hist_vars>>

(***************************************************************************)
(* The specifications.                                                     *)
(***************************************************************************)
Driver == PlayNext \/ FadeOutStep \/ FadeInStep \/ Tick \/ Wake \/ MediaEnds

Api ==
    \/ \E c \in Contents : AddContent(c) /\ Unobserved
    \/ \E cid \in ContentIds : DeleteContent(cid) /\ Unobserved
    \/ \E ids \in IdLists : UpdatePlaylist(ids) /\ Unobserved

\* the same calls, each leaving its answer in `last`
ApiObserved ==
    \/ \E c \in Contents : AddContent(c) /\ last' = AddResponse
    \/ \E cid \in ContentIds : DeleteContent(cid) /\ last' = DeleteResponse(cid)
    \/ \E ids \in IdLists : UpdatePlaylist(ids) /\ last' = PlaylistResponse(ids)

\* the playback loop under API calls, with no websocket client connected
Next == Driver \/ Api

Spec == Init /\ [][Next]_vars

\* the playback loop under API calls whose answers are recorded
NextApi == Driver \/ ApiObserved

SpecApi == Init /\ [][NextApi]_vars

\* the playback loop up to and after shutdown_event; requests are served
\* until shutdown_event runs
NextShut ==
    \/ Driver
    \/ \E c \in Contents : ~shut /\ AddContent(c) /\ Unobserved
    \/ Shutdown
    \/ LoopClose

SpecShut == Init /\ [][NextShut]_vars

\* the playback loop with one play_content call made by a second caller,
\* followed to the end of the tick in which that call was made
NextSwitch ==
    \/ Driver /\ (sw_pc = "idle" \/ ticks' = sw_tick)
    \/ \E c \in Contents : AddContent(c) /\ Unobserved
    \/ \E c \in Contents : Switch(c)
    \/ SwFadeOutStep
    \/ SwFadeInStep

SpecSwitch == Init /\ [][NextSwitch]_vars

\* the playback loop with content being added and update_playlist never called
NextAdd ==
    \/ Driver
    \/ \E c \in Contents : AddContent(c) /\ Unobserved

SpecAdd == Init /\ [][NextAdd]_vars

\* the playback loop with Schedules being stored
NextSched ==
    \/ Driver
    \/ \E c \in Contents : AddContent(c) /\ Unobserved
    \/ \E s \in Schedules : UpsertSchedule(s)

SpecSched == Init /\ [][NextSched]_vars

\* the websocket layer once startup_event has returned, the playback loop
\* not being scheduled in the meantime
InitWS ==
    /\ content_db = <<>>
    /\ current_playlist = <<>>
    /\ current_index = 0
    /\ schedules = {}
    /\ pc = "select"
    /\ started = TRUE
    /\ tasks = 1
    /\ content = NoContent
    /\ timer = 0
    /\ fade_i = 0
    /\ current_volume = 0
    /\ is_transitioning = FALSE
    /\ current_media = NoContent
    /\ vlc_playing = FALSE
    /\ volume = TargetVolume
    /\ browser = FALSE
    /\ websocket_clients = <<>>
    /\ sock = [w \in Sockets |-> "none"]
    /\ notify = [p \in Slots |-> IdleCall]
    /\ raised = {}
    /\ last = NoCall
    /\ shut = FALSE
    /\ sw_pc = "idle"
    /\ sw_content = NoContent
    /\ sw_i = 0
    /\ sw_volume = 0
    /\ sw_tick = 0
    /\ ticks = 0
    /\ clean = TRUE
    /\ removed_cur = FALSE
    /\ load_failed = FALSE

NextWS ==
    \/ \E w \in Sockets : Connect(w)
    \/ \E w \in Sockets : PeerClose(w)
    \/ \E w \in Sockets : EndpointDisconnect(w)
    \/ \E p \in Slots : NotifyStep(p)
    \/ \E ids \in IdLists : UpdatePlaylist(ids) /\ Unobserved

SpecWS == InitWS /\ [][NextWS]_vars

(***************************************************************************)
(* Properties.                                                             *)
(***************************************************************************)
\* play_next has selected an item in this step
Selects == pc = "select" /\ pc' \notin {"select", "backoff"}

\* C1: while the rotation sequence stays as update_playlist (or the fallback
\* to all content) set it outside a play_content call, the k-th item handed
\* to the renderer is sequence[k mod n], and the cursor moves on by one
\* modulo n per tick.
C1_RotationOrder ==
    (clean /\ ticks > 0 /\ ticks < MaxTicks /\ current_playlist # <<>>) =>
        LET n == Len(current_playlist)
        IN /\ pc \in {"fade_out", "fade_in"} =>
                 /\ content = current_playlist[((ticks - 1) % n) + 1]
                 /\ current_index = (ticks - 1) % n
           /\ pc = "sleep" =>
                 /\ content = current_playlist[((ticks - 1) % n) + 1]
                 /\ current_index = ticks % n
           /\ pc = "select" => current_index = ticks % n

\* [A, B] has been played A, B, A: the cursor has wrapped
C1_Witness ==
    /\ clean /\ ticks = 3 /\ pc = "sleep"
    /\ Len(current_playlist) = 2
    /\ current_playlist[1] # current_playlist[2]
    /\ content = current_playlist[1]
    /\ current_index = 1

\* C2: the play_next loop never ends with an exception.
C2_DriverNeverDies == pc # "dead"

\* C3: with no content at all a tick touches no renderer, waits the 5 s
\* backoff and only then selects again; a tick that finds content does not
\* back off but hands an item to the renderer.
C3_EmptyBackoff ==
    [][ /\ (pc = "select" /\ pc' # "select" /\ content_db = <<>> /\ current_playlist = <<>>)
              => (pc' = "backoff" /\ timer' = BackoffSecs /\ UNCHANGED player_vars)
        /\ (pc = "backoff" /\ pc' = "backoff") => timer' \in {timer, timer - 1}
        /\ (pc = "backoff" /\ pc' # "backoff") => (pc' = "select" /\ timer = 0)
        /\ (pc = "select" /\ pc' # "select"
                 /\ (content_db # <<>> \/ current_playlist # <<>>))
              => (pc' \in {"fade_out", "fade_in", "sleep"} /\ content' \in Contents)
      ]_vars

\* the backoff has been waited out with the catalog still empty
C3_Witness ==
    /\ pc = "backoff" /\ timer = 0 /\ started
    /\ content_db = <<>> /\ current_playlist = <<>>

\* C4: every item play_next selects has its id in content_db at that moment.
C4_SelectedExists == [][Selects => content'.id \in Keys(content_db)]_vars

\* C5: once the content on screen has been deleted, its duration wait does
\* not run to its end.
C5_DeletePreempts == ~(pc = "sleep" /\ removed_cur /\ timer = 0)

\* C6: the first selection after update_playlist has set a non-empty
\* sequence is the first element of that sequence.
C6_ResetPlaysFirst ==
    [][(Selects /\ ticks = 0 /\ current_playlist # <<>>)
          => content' = current_playlist[1]]_vars

\* C7: with an enabled Schedule stored whose content exists, the selection
\* is an item of a highest-priority Schedule.
C7_ScheduleWins ==
    [][(Selects /\ \E s \in TopSchedules : Resolve(content_db, s.content_ids) # <<>>)
          => \E s \in TopSchedules :
                 \E j \in DOMAIN s.content_ids : content'.id = s.content_ids[j]]_vars

\* C8: the VLC player and the chromium browser are never active together.
C8_OneBackend == ~(vlc_playing /\ browser)

\* C9: after a failed load the transition flag is clear and play_next does
\* not wait out the failed item's duration.
C9_FailureAdvances ==
    (pc = "sleep" /\ load_failed) => (~is_transitioning /\ timer = 0)

\* C10: no exception escapes notify_clients or websocket_endpoint, and a
\* finished notify_clients call has sent to every client that was connected
\* when it began and is still healthy.
C10_FanOut ==
    /\ raised = {}
    /\ \A p \in Slots :
          notify[p].st = "done" =>
              {w \in notify[p].at_start : sock[w] = "open"} \subseteq notify[p].got

\* C11: an observer receives the events in the order they were published: a
\* notify_clients call that was published earlier and is still sending never
\* delivers to a socket that has already received a later call's event.
C11_PublishOrder ==
    [][\A p \in Slots, q \in Slots, w \in Sockets :
          (/\ p \in notify[q].older
           /\ notify[p].st = "sending"
           /\ w \in notify[q].got
           /\ w \notin notify[p].got) => w \notin notify'[p].got]_vars

\* C12: delete_content of an unknown id answers 404, leaves the catalog, the
\* playlist and the cursor as they were and publishes nothing; of a known id
\* it removes exactly that entry, keeps the others in their order, leaves
\* the playlist and the cursor alone and publishes one content_deleted
\* event.  The id is unknown afterwards, so a second removal answers 404.
C12_RemoveContent ==
    [][\A cid \in ContentIds :
          (last'.op = "delete" /\ last'.id = cid) =>
             IF \A j \in DOMAIN content_db : content_db[j].id # cid
             THEN /\ last'.status = 404
                  /\ last'.event = "none"
                  /\ UNCHANGED <<content_db, current_playlist, current_index, notify>>
             ELSE /\ last'.status = 200
                  /\ last'.event = "content_deleted"
                  /\ Len(content_db') = Len(content_db) - 1
                  /\ \A j \in DOMAIN content_db' : content_db'[j].id # cid
                  /\ \E k \in DOMAIN content_db :
                        /\ content_db[k].id = cid
                        /\ \A j \in DOMAIN content_db' :
                              content_db'[j] = IF j < k THEN content_db[j]
                                               ELSE content_db[j + 1]
                  /\ UNCHANGED <<current_playlist, current_index>>]_vars

\* a known id was removed while another entry stays and the cursor is not 0
C12_Witness ==
    /\ last.op = "delete"
    /\ last.status = 200
    /\ content_db # <<>>
    /\ current_index > 0

\* C13: once shutdown_event has run, the playback loop issues no renderer
\* load: no VLC playback and no browser is started after it.
C13_NoLoadAfterShutdown ==
    [][shut => /\ vlc_playing' => vlc_playing
               /\ browser' => browser]_vars

\* C14: when play_content(B) is called while play_content(A) is in a fade
\* and both calls have returned, the renderer shows B and holds no session
\* of A: B is the current media, or B's browser runs and VLC is not playing A.
C14_SwitchSupersedes ==
    (sw_pc = "done" /\ pc = "sleep" /\ ticks = sw_tick) =>
        IF sw_content.type = "web"
        THEN browser /\ ~(vlc_playing /\ current_media = content)
        ELSE current_media = sw_content

\* C15: a content switch made by the playback loop is published: the step of
\* play_next in which play_content returns and the duration wait begins
\* passes a now_playing_changed message to notify_clients.
C15_NowPlayingPublished ==
    [][(pc # "sleep" /\ pc' = "sleep") => last'.event = "now_playing_changed"]_vars

\* C16: _fade_out only lowers the level, from the starting level on, and the
\* last level it sets before the new media is loaded is 0.
C16_FadeOutToZero ==
    [][/\ pc' = "fade_out" => volume' <= volume
       /\ (pc = "fade_out" /\ pc' # "fade_out") => volume = 0]_vars

\* C17: update_playlist(ids) answers without raising and sets the playlist
\* to the contents of the ids that are in content_db at the call, in the
\* order given, skipping the others; and a selection made with an empty
\* playlist, as after ids that are all unknown, uses all of content_db.
C17_UpdatePlaylist ==
    [][/\ last'.op = "playlist" =>
             LET ids == last'.ids
                 known == {j \in DOMAIN ids :
                             \E h \in DOMAIN content_db : content_db[h].id = ids[j]}
             IN /\ last'.status = 200
                /\ Len(current_playlist') = Cardinality(known)
                /\ \A j \in known :
                      \E h \in DOMAIN content_db :
                         /\ content_db[h].id = ids[j]
                         /\ current_playlist'[Cardinality({m \in known : m <= j})]
                               = content_db[h]
       /\ (Selects /\ current_playlist = <<>>) =>
             /\ current_playlist' = content_db
             /\ \E h \in DOMAIN content_db : content' = content_db[h]]_vars

\* update_playlist was called with an unknown id ahead of a known one
C17_Witness ==
    /\ last.op = "playlist"
    /\ last.ids = <<"B", "A">>
    /\ Len(current_playlist) = 1
    /\ current_playlist[1].id = "A"

\* C18: with update_playlist never called, every selection is made from all
\* the content known at that selection: the ids of the sequence play_next
\* selects from are the ids of content_db.
C18_FallbackFollowsCatalog ==
    [][Selects =>
          {current_playlist'[j].id : j \in DOMAIN current_playlist'} = Keys(content_db)]_vars

\* C19: is_transitioning is True only while a play_content call is running:
\* it is False whenever the loop is not inside one.
C19_FlagCleared == pc \notin {"fade_out", "fade_in"} => ~is_transitioning

\* C20: whenever the playlist is not empty the cursor is an index into it.
C20_CursorInRange ==
    current_playlist # <<>> =>
        (0 <= current_index /\ current_index < Len(current_playlist))

\* play_next is about to read the last item of a two-item playlist
C20_Witness ==
    /\ pc = "select"
    /\ Len(current_playlist) = 2
    /\ current_index = 1

\* C21: at most one play_next invocation is live at any time, and a task is
\* made one at a time and only by an invocation that ends in the same step,
\* coming out of its sleep.
C21_OneInvocation ==
    [][/\ Live <= 1
       /\ Live' <= 1
       /\ tasks' > tasks => /\ tasks' = tasks + 1
                            /\ pc \in {"sleep", "backoff"}
                            /\ pc' = "select"]_vars

\* an invocation made by create_task has spawned its own successor
C21_Witness ==
    /\ started
    /\ tasks = 1
    /\ pc = "select"
    /\ ticks >= 2

\* C22: add_content and remove_content write content_db only: the playlist,
\* the cursor and the renderer are as before; add_content of an id that is
\* present puts the new Content in the place of the old one, of a new id
\* appends it, and no id is in content_db twice.
C22_CatalogOnly ==
    [][/\ last'.op \in {"add", "delete"} =>
             UNCHANGED <<current_playlist, current_index, player_vars>>
       /\ last'.op = "add" =>
             /\ \E c \in Contents :
                   IF \E j \in DOMAIN content_db : content_db[j].id = c.id
                   THEN /\ Len(content_db') = Len(content_db)
                        /\ \A j \in DOMAIN content_db :
                              content_db'[j] = IF content_db[j].id = c.id THEN c
                                               ELSE content_db[j]
                   ELSE /\ Len(content_db') = Len(content_db) + 1
                        /\ content_db'[Len(content_db')] = c
                        /\ \A j \in DOMAIN content_db : content_db'[j] = content_db[j]
             /\ \A i \in DOMAIN content_db', j \in DOMAIN content_db' :
                   content_db'[i].id = content_db'[j].id => i = j]_vars

\* content was added while VLC plays, and the playlist still holds the
\* Content that an add of the same id has replaced in content_db
C22_Witness ==
    /\ last.op = "add"
    /\ vlc_playing
    /\ \E j \in DOMAIN current_playlist, h \in DOMAIN content_db :
          /\ current_playlist[j].id = content_db[h].id
          /\ current_playlist[j] # content_db[h]

====
